---- MODULE Spec2Model ----
(***************************************************************************)
(* A model of better-tool-library's command-line manager                   *)
(* (scripts/tooldb-manager.py) and of its material catalog                 *)
(* (btl/feeds/material.py).                                                *)
(*                                                                         *)
(* Spec      : one run of the manager script, from the point where         *)
(*             parse_args() has returned to the point where the process    *)
(*             exits.                                                      *)
(* SpecFeeds : one feeds-and-speeds query against the material catalog.    *)
(***************************************************************************)
EXTENDS Integers, Sequences, FiniteSets, TLC

VARIABLES
    pc,            \* position of the script
    args,          \* the namespace parse_args() returned
    source,        \* what the database behind args.name holds (library labels)
    serializers,   \* the serializer instances constructed so far, by identity
    db,            \* the ToolDB instance
    trace,         \* the calls the script has completed, in order
    stdout,        \* what was printed
    stderr,        \* what was written to standard error
    exit_code,     \* the exit status of the process (-1 while running)
    libraries,     \* select_library: the local `libraries`
    default,       \* select_library: the local `default` (0 stands for None)
    selection,     \* select_library: the last string input() returned
    prompts,       \* the number of times the running prompt loop has called input()
    library,       \* the module-level `library`
    properties,    \* create_tool: the local `properties`
    prop_i,        \* create_tool: the position of the for loop in `properties`
    val,           \* create_tool: the last string input() returned for a parameter
    tool,          \* create_tool: the local `tool`, then the module-level one
    fpc,           \* feeds: position of the query
    material,      \* feeds: the material class queried
    tool_material, \* feeds: "HSS" or "CARBIDE"
    operation,     \* feeds: the Operation queried
    tool_diameter, \* feeds: the tool diameter in mm
    recommendation \* feeds: the result of the query

script_vars == <<pc, args, source, serializers, db, trace, stdout, stderr, exit_code,
                 libraries, default, selection, prompts, library, properties, prop_i,
                 val, tool>>
feeds_vars == <<fpc, material, tool_material, operation, tool_diameter, recommendation>>
vars == <<script_vars, feeds_vars>>

(***************************************************************************)
(* Bounds of the model.                                                    *)
(***************************************************************************)
MaxLibs == 3        \* libraries in the database
MaxSel == 4         \* integers typed at the library prompt range over -MaxSel..MaxSel
MaxPrompts == 2     \* calls of input() by one prompt loop
MaxProps == 2       \* properties of a shape
MaxObjects == 2     \* objects named after `ls`
MaxDiameter == 6    \* tool diameters 1..MaxDiameter mm

(***************************************************************************)
(* Strings whose order matters are sequences of code points, compared as   *)
(* Python compares str values.                                             *)
(***************************************************************************)
Default == <<68, 101, 102, 97, 117, 108, 116>>     \* 'Default'
ShopB == <<83, 104, 111, 112, 32, 66>>             \* 'Shop B'
Alpha == <<65, 108, 112, 104, 97>>                 \* 'Alpha'
Shop == <<83, 104, 111, 112>>                      \* 'Shop'
Labels == {Default, ShopB, Alpha, Shop}

Min(a, b) == IF a < b THEN a ELSE b

\* a < b for two str values: the first differing code point decides, and a proper
\* prefix is less than the longer string.
StrLess(a, b) ==
    \E i \in 1..(Min(Len(a), Len(b)) + 1) :
        /\ \A j \in 1..(i - 1) : a[j] = b[j]
        /\ IF i <= Len(a) /\ i <= Len(b) THEN a[i] < b[i]
           ELSE i > Len(a) /\ i <= Len(b)

\* A Library object: its identity (the position it was inserted at) and its label.
Library(n, label) == [id |-> n, label |-> label]
NoLibrary == [id |-> 0, label |-> <<>>]


\* sorted(): a stable insertion of x behind every element that is not greater.
RECURSIVE Insert(_, _)
Insert(x, s) ==
    IF s = <<>> THEN <<x>>
    ELSE IF StrLess(x.label, Head(s).label) THEN <<x>> \o s
    ELSE <<Head(s)>> \o Insert(x, Tail(s))

\* sorted() left out: the libraries are listed in the order the store yields them.
sorted_left_out(s) == s

\* sorted(libraries, key=lambda l: l.label); with enumerate(..., start=1) the
\* position in the sequence is the number the library is listed under.
RECURSIVE sorted(_)
sorted(s) ==
    IF s = <<>> THEN <<>>
    ELSE Insert(s[Len(s)], sorted(SubSeq(s, 1, Len(s) - 1)))

\* The number of the library labelled 'Default' in the listing; the for loop keeps
\* the last one, and None (0) when there is none.
DefaultOf(listing) ==
    LET at == {n \in 1..Len(listing) : listing[n].label = Default}
    IN IF at = {} THEN 0 ELSE CHOOSE n \in at : \A m \in at : m <= n

\* The lines the for loop prints: number, label, and whether '*' follows.
Listing(listing) ==
    [n \in 1..Len(listing) |->
        <<"listing", n, listing[n].label, listing[n].label = Default>>]

\* What input() may return at the library prompt: the empty string, a string int()
\* parses (with its value), or any other string.
NoInput == [kind |-> "none", int |-> 0]
SelectInputs ==
    {[kind |-> "empty", int |-> 0], [kind |-> "text", int |-> 0]}
        \cup {[kind |-> "int", int |-> n] : n \in (0 - MaxSel)..MaxSel}

\* int(input(...) or 1) raises ValueError
RaisesValueError(inp) == inp.kind = "text"

\* int(input(...) or 1)
IntOrOne(inp) == IF inp.kind = "empty" THEN 1 ELSE inp.int

\* s[i] of a Python list: a negative index counts from the end.
InRange(s, i) == (0 - Len(s)) <= i /\ i < Len(s)
PyIndex(s, i) == IF i >= 0 THEN s[i + 1] ELSE s[Len(s) + i + 1]

(***************************************************************************)
(* The command line.                                                       *)
(***************************************************************************)
Formats == {"freecad", "linuxcnc"}
Names == {"tools", "other"}
ObjectChoices == {"all", "libraries", "tools"}

SeqsUpTo(S, n) == UNION {[1..k -> S] : k \in 0..n}
InjectiveSeqsUpTo(S, n) ==
    {s \in SeqsUpTo(S, n) : \A i, j \in 1..Len(s) : s[i] = s[j] => i = j}

Namespace(format, name, command, objects, output_format, output, object, shape) ==
    [format |-> format, name |-> name, command |-> command, objects |-> objects,
     output_format |-> output_format, output |-> output, object |-> object,
     shape |-> shape]

\* The namespaces parse_args() returns without exiting.
\* --format and the name only reach the constructor of the input serializer; they
\* vary where a second serializer is constructed (export), and are the default
\* format and one name elsewhere.
ArgSets ==
    {Namespace("freecad", "tools", "None", <<>>, "None", "None", "None", "None")}
    \cup {Namespace("freecad", "tools", "ls", o, "None", "None", "None", "None") :
        o \in SeqsUpTo(ObjectChoices, MaxObjects)}
    \cup {Namespace(f, n, "export", <<>>, x[1], x[2], "None", "None") :
        f \in Formats, n \in Names, x \in Formats \X Names}
    \cup {Namespace("freecad", "tools", "create", <<>>, "None", "None", o, "None") :
        o \in {"library", "None"}}
    \cup {Namespace("freecad", "tools", "create", <<>>, "None", "None", "tool",
                     "endmill")}

(***************************************************************************)
(* The store and the calls made on it.                                     *)
(***************************************************************************)
ToolDB == [libraries |-> <<>>, tools |-> <<>>]

Event(ev, ser, lib, data) == [ev |-> ev, ser |-> ser, lib |-> lib, data |-> data]

\* db.deserialize(serializer): the store holds what the database behind it holds.
deserialize(ser) ==
    [libraries |-> [i \in 1..Len(source) |-> Library(i, source[i])], tools |-> <<>>]

\* db.add_tool(tool, library=library)
add_tool(d, t, lib) == [d EXCEPT !.tools = Append(@, [tool |-> t, library |-> lib.id])]

(***************************************************************************)
(* The shape's properties, as get_properties_from_shape returns them: the   *)
(* name, the default value and the allowed values of each (group and unit  *)
(* only appear in the prompt text).                                        *)
(***************************************************************************)
Values == {"a", "b", "c"}
PropNames == <<"Diameter", "Material", "Flutes", "Length">>
PropChoices ==
    {[value |-> v, enum |-> e] : v \in {"a", "c"}, e \in {{}, {"a", "b"}}}
PropertyLists ==
    {[i \in 1..Len(s) |-> [propname |-> PropNames[i], value |-> s[i].value,
                           enum |-> s[i].enum]] :
        s \in SeqsUpTo(PropChoices, Min(MaxProps, Len(PropNames)))}

\* Tool(label, shape)
Tool(label, shape) == [label |-> label, shape |-> shape, params |-> <<>>]
NoTool == [label |-> "None", shape |-> "None", params |-> <<>>]

\* tool.params[propname] = val
SetParam(t, propname, v) == [t EXCEPT !.params = (propname :> v) @@ @]


(***************************************************************************)
(* The script.                                                             *)
(***************************************************************************)
ScriptInit ==
    /\ pc = "start"
    /\ args \in ArgSets
    /\ source \in InjectiveSeqsUpTo(Labels, MaxLibs)
    /\ serializers = <<>>
    /\ db = ToolDB
    /\ trace = <<>>
    /\ stdout = <<>>
    /\ stderr = <<>>
    /\ exit_code = -1
    /\ libraries = <<>>
    /\ default = 0
    /\ selection = NoInput
    /\ prompts = 0
    /\ library = NoLibrary
    /\ properties = <<>>
    /\ prop_i = 0
    /\ val = "None"
    /\ tool = NoTool

ScriptIdle ==
    /\ pc = "idle"
    /\ args = Namespace("None", "None", "None", <<>>, "None", "None", "None", "None")
    /\ source = <<>>
    /\ serializers = <<>>
    /\ db = ToolDB
    /\ trace = <<>>
    /\ stdout = <<>>
    /\ stderr = <<>>
    /\ exit_code = -1
    /\ libraries = <<>>
    /\ default = 0
    /\ selection = NoInput
    /\ prompts = 0
    /\ library = NoLibrary
    /\ properties = <<>>
    /\ prop_i = 0
    /\ val = "None"
    /\ tool = NoTool

select_locals == <<libraries, default, selection, prompts>>
create_locals == <<properties, prop_i, val, tool>>
io_vars == <<stdout, stderr, exit_code>>

\* The process ends with `status`, `message` written to standard error.
Exit(status, message) ==
    /\ pc' = "exit"
    /\ exit_code' = status
    /\ stderr' = IF message = "" THEN stderr ELSE Append(stderr, message)

\* serializer = serializer_cls(args.name); db = ToolDB(); db.deserialize(serializer)
Deserialize ==
    /\ pc = "start"
    /\ serializers' = <<[format |-> args.format, name |-> args.name]>>
    /\ db' = deserialize(1)
    /\ trace' = Append(trace, Event("db.deserialize", 1, NoLibrary, db'))
    /\ pc' = "dispatch"
    /\ UNCHANGED <<feeds_vars, args, source, io_vars, select_locals, library,
                   create_locals>>

\* What the `ls` loop prints for the objects named.
RECURSIVE LsOutput(_, _)
LsOutput(objs, d) ==
    IF objs = <<>> THEN <<>>
    ELSE (CASE Head(objs) = "libraries" ->
                 [i \in 1..Len(d.libraries) |-> <<"library", d.libraries[i]>>]
            [] Head(objs) = "tools" ->
                 [i \in 1..Len(d.tools) |-> <<"tool", d.tools[i]>>]
            [] OTHER -> <<<<"dump", d>>>>)
         \o LsOutput(Tail(objs), d)

\* if args.command == 'ls': the choices of the `objects` argument leave the
\* parser.error branch of the loop without an input that reaches it.
LsCmd ==
    /\ pc = "dispatch"
    /\ args.command = "ls"
    /\ stdout' = stdout \o LsOutput(args.objects, db)
    /\ pc' = "exit"
    /\ exit_code' = 0
    /\ UNCHANGED <<feeds_vars, args, source, serializers, db, trace, stderr,
                   select_locals, library, create_locals>>

\* The store is written back through the serializer it was loaded from.
ExportCmd_to_input ==
    /\ pc = "dispatch"
    /\ args.command = "export"
    /\ stdout' = Append(stdout, <<"Exporting as", args.output_format>>)
    /\ trace' = Append(trace, Event("db.serialize", 1, NoLibrary, db))
    /\ pc' = "exit"
    /\ exit_code' = 0
    /\ UNCHANGED <<feeds_vars, args, source, serializers, db, stderr, select_locals,
                   library, create_locals>>

\* elif args.command == 'export'
ExportCmd ==
    /\ pc = "dispatch"
    /\ args.command = "export"
    /\ stdout' = Append(stdout, <<"Exporting as", args.output_format>>)
    /\ serializers' =
           Append(serializers, [format |-> args.output_format, name |-> args.output])
    /\ trace' = Append(trace, Event("db.serialize", Len(serializers'), NoLibrary, db))
    /\ pc' = "exit"
    /\ exit_code' = 0
    /\ UNCHANGED <<feeds_vars, args, source, db, stderr, select_locals, library,
                   create_locals>>

\* else: print("no command given, nothing to do")
NoCommand ==
    /\ pc = "dispatch"
    /\ args.command = "None"
    /\ stdout' = Append(stdout, <<"no command given, nothing to do">>)
    /\ pc' = "exit"
    /\ exit_code' = 0
    /\ UNCHANGED <<feeds_vars, args, source, serializers, db, trace, stderr,
                   select_locals, library, create_locals>>

\* The message is printed and the script goes on to the db.serialize that follows
\* the branch.
CreateLibrary_goes_on ==
    /\ pc = "dispatch"
    /\ args.command = "create"
    /\ args.object = "library"
    /\ stderr' = Append(stderr, "sorry, not yet implemented")
    /\ pc' = "db_serialize"
    /\ UNCHANGED <<feeds_vars, args, source, serializers, db, trace, stdout, exit_code,
                   select_locals, library, create_locals>>

\* elif args.object == 'library': tool = Library(); parser.error(...), which prints
\* the usage and the message to standard error and exits with status 2.
CreateLibrary ==
    /\ pc = "dispatch"
    /\ args.command = "create"
    /\ args.object = "library"
    /\ Exit(2, "sorry, not yet implemented")
    /\ UNCHANGED <<feeds_vars, args, source, serializers, db, trace, stdout,
                   select_locals, library, create_locals>>

\* else: parser.error('requested unsupported object: ...')
CreateUnsupported ==
    /\ pc = "dispatch"
    /\ args.command = "create"
    /\ args.object \notin {"tool", "library"}
    /\ Exit(2, "requested unsupported object")
    /\ UNCHANGED <<feeds_vars, args, source, serializers, db, trace, stdout,
                   select_locals, library, create_locals>>


\* The test for a single library is missing: the list is always shown.
SelectLibraryCall_always_lists ==
    /\ pc = "dispatch"
    /\ args.command = "create"
    /\ args.object = "tool"
    /\ libraries' = sorted(db.libraries)
    /\ default' = DefaultOf(libraries')
    /\ stdout' = stdout \o Listing(libraries')
    /\ pc' = "select_prompt"
    /\ UNCHANGED <<feeds_vars, args, source, serializers, db, trace, stderr, exit_code,
                   selection, prompts, library, create_locals>>

\* library = select_library(list(db.get_libraries())), up to the first prompt:
\* a single library is returned at once, otherwise the libraries are sorted by
\* label, numbered from 1 and listed.
SelectLibraryCall ==
    /\ pc = "dispatch"
    /\ args.command = "create"
    /\ args.object = "tool"
    /\ IF Len(db.libraries) = 1
       THEN /\ libraries' = db.libraries
            /\ library' = db.libraries[1]
            /\ trace' = Append(trace, Event("select_library", 0, library', db))
            /\ pc' = "select_return"
            /\ UNCHANGED <<default, stdout>>
       ELSE /\ libraries' = sorted(db.libraries)
            /\ default' = DefaultOf(libraries')
            /\ stdout' = stdout \o Listing(libraries')
            /\ pc' = "select_prompt"
            /\ UNCHANGED <<library, trace>>
    /\ UNCHANGED <<feeds_vars, args, source, serializers, db, stderr, exit_code,
                   selection, prompts, create_locals>>

\* One turn of `while True`: the prompt shows `default`, input() returns `inp`.
\* A ValueError prompts again; otherwise libraries[selection-1][1] is returned, or
\* the IndexError it raises ends the process with a traceback and status 1.
SelectLibraryInput ==
    /\ pc = "select_prompt"
    /\ \E inp \in SelectInputs :
        /\ selection' = inp
        /\ prompts' = prompts + 1
        /\ IF RaisesValueError(inp)
           THEN /\ prompts + 1 < MaxPrompts
                /\ UNCHANGED <<pc, library, trace, stderr, exit_code>>
           ELSE IF InRange(libraries, IntOrOne(inp) - 1)
           THEN /\ library' = PyIndex(libraries, IntOrOne(inp) - 1)
                /\ trace' = Append(trace, Event("select_library", 0, library', db))
                /\ pc' = "select_return"
                /\ UNCHANGED <<stderr, exit_code>>
           ELSE /\ Exit(1, "IndexError: list index out of range")
                /\ UNCHANGED <<library, trace>>
    /\ UNCHANGED <<feeds_vars, args, source, serializers, db, stdout, libraries,
                   default, create_locals>>

\* print('Tool will be added to library "{}".'.format(library.label)); the frame of
\* select_library is gone.
PrintSelected ==
    /\ pc = "select_return"
    /\ stdout' = Append(stdout, <<"Tool will be added to library", library.label>>)
    /\ libraries' = <<>>
    /\ default' = 0
    /\ selection' = NoInput
    /\ prompts' = 0
    /\ pc' = "create_tool"
    /\ UNCHANGED <<feeds_vars, args, source, serializers, db, trace, stderr, exit_code,
                   library, create_locals>>

ToolLabels == {"T1"}
ParamInputs == {""} \cup Values

\* create_tool(args.shape) up to the label prompt: the shape file is read, and an
\* ImportError from the reader ends the process with status 1.
CreateToolShape ==
    /\ pc = "create_tool"
    /\ \/ /\ Exit(1, "error: FreeCAD Python module not found.")
          /\ UNCHANGED properties
       \/ /\ properties' \in PropertyLists
          /\ pc' = "ask_label"
          /\ UNCHANGED <<stderr, exit_code>>
    /\ UNCHANGED <<feeds_vars, args, source, serializers, db, trace, stdout,
                   select_locals, library, prop_i, val, tool>>

\* label = input(...); tool = Tool(label, shape); print(...)
CreateToolLabel ==
    /\ pc = "ask_label"
    /\ \E label \in ToolLabels : tool' = Tool(label, args.shape)
    /\ stdout' = Append(stdout, <<"Please enter the tool parameters">>)
    /\ prop_i' = 1
    /\ prompts' = 0
    /\ pc' = "ask_param"
    /\ UNCHANGED <<feeds_vars, args, source, serializers, db, trace, stderr, exit_code,
                   libraries, default, selection, library, properties, val>>

\* Only what the user typed is checked against enum; the default is stored as is.
CreateToolParam_default_unchecked ==
    /\ pc = "ask_param"
    /\ prop_i <= Len(properties)
    /\ \E inp \in ParamInputs :
        LET p == properties[prop_i]
            v == IF inp = "" THEN p.value ELSE inp
        IN /\ val' = v
           /\ IF inp # "" /\ p.enum # {} /\ v \notin p.enum
              THEN /\ prompts + 1 < MaxPrompts
                   /\ prompts' = prompts + 1
                   /\ UNCHANGED <<tool, prop_i>>
              ELSE /\ tool' = SetParam(tool, p.propname, v)
                   /\ prop_i' = prop_i + 1
                   /\ prompts' = 0
    /\ UNCHANGED <<feeds_vars, pc, args, source, serializers, db, trace, io_vars,
                   libraries, default, selection, library, properties>>

\* One turn of the inner `while True` for properties[prop_i]: val = input(msg) or
\* value; a val outside a non-empty enum prompts again, any other is stored.
CreateToolParam ==
    /\ pc = "ask_param"
    /\ prop_i <= Len(properties)
    /\ \E inp \in ParamInputs :
        LET p == properties[prop_i]
            v == IF inp = "" THEN p.value ELSE inp
        IN /\ val' = v
           /\ IF p.enum # {} /\ v \notin p.enum
              THEN /\ prompts + 1 < MaxPrompts
                   /\ prompts' = prompts + 1
                   /\ UNCHANGED <<tool, prop_i>>
              ELSE /\ tool' = SetParam(tool, p.propname, v)
                   /\ prop_i' = prop_i + 1
                   /\ prompts' = 0
    /\ UNCHANGED <<feeds_vars, pc, args, source, serializers, db, trace, io_vars,
                   libraries, default, selection, library, properties>>

\* return tool
CreateToolReturn ==
    /\ pc = "ask_param"
    /\ prop_i > Len(properties)
    /\ trace' = Append(trace, Event("create_tool", 0, NoLibrary, db))
    /\ pc' = "add_tool"
    /\ UNCHANGED <<feeds_vars, args, source, serializers, db, io_vars, select_locals,
                   library, create_locals>>

\* The library is serialized before the tool is added to it.
AddTool_after_serialize ==
    /\ pc = "add_tool"
    /\ db' = add_tool(db, tool, library)
    /\ trace' = trace \o <<Event("library.serialize", 1, library, db),
                           Event("db.add_tool", 0, library, db')>>
    /\ pc' = "db_serialize"
    /\ UNCHANGED <<feeds_vars, args, source, serializers, io_vars, select_locals,
                   library, create_locals>>

\* db.add_tool(tool, library=library)
AddTool ==
    /\ pc = "add_tool"
    /\ db' = add_tool(db, tool, library)
    /\ trace' = Append(trace, Event("db.add_tool", 0, library, db'))
    /\ pc' = "library_serialize"
    /\ UNCHANGED <<feeds_vars, args, source, serializers, io_vars, select_locals,
                   library, create_locals>>

\* library.serialize(serializer)
LibrarySerialize ==
    /\ pc = "library_serialize"
    /\ trace' = Append(trace, Event("library.serialize", 1, library, db))
    /\ pc' = "db_serialize"
    /\ UNCHANGED <<feeds_vars, args, source, serializers, db, io_vars, select_locals,
                   library, create_locals>>

\* db.serialize(serializer), the last statement of the `create` branch
DbSerialize ==
    /\ pc = "db_serialize"
    /\ trace' = Append(trace, Event("db.serialize", 1, NoLibrary, db))
    /\ pc' = "exit"
    /\ exit_code' = 0
    /\ UNCHANGED <<feeds_vars, args, source, serializers, db, stdout, stderr,
                   select_locals, library, create_locals>>

FeedsIdle ==
    /\ fpc = "idle"
    /\ material = "None"
    /\ tool_material = "None"
    /\ operation = "None"
    /\ tool_diameter = 0
    /\ recommendation = <<>>

Init == ScriptInit /\ FeedsIdle

Next ==
    \/ Deserialize
    \/ LsCmd
    \/ ExportCmd
    \/ NoCommand
    \/ CreateLibrary
    \/ CreateUnsupported
    \/ SelectLibraryCall
    \/ SelectLibraryInput
    \/ PrintSelected
    \/ CreateToolShape
    \/ CreateToolLabel
    \/ CreateToolParam
    \/ CreateToolReturn
    \/ AddTool
    \/ LibrarySerialize
    \/ DbSerialize

Spec == Init /\ [][Next]_vars


(***************************************************************************)
(* The material catalog. A speed range is a pair of bounds in m/min; a     *)
(* bound is None or holds one number. power_factor is in hundredths of     *)
(* METRIC_POWER_FACTOR.                                                    *)
(***************************************************************************)
None == <<>>
Range(min, max) == <<<<min>>, <<max>>>>
Unspecified == <<None, None>>

\* The carbide figures and the HSS figures of Aluminium6061 change places.
Aluminium6061_tables_swapped ==
    [key |-> "Aluminium6061",
     power_factor |-> 33,
     hss_chipload_divisor |-> 80,
     hss_speeds |->
         [MILLING |-> Range(640, 865), SLOTTING |-> Range(425, 575),
          DRILLING |-> Range(215, 290)],
     carbide_chipload_divisor |-> 160,
     carbide_speeds |->
         [MILLING |-> Range(152, 182), SLOTTING |-> Unspecified,
          DRILLING |-> Range(106, 122)]]

\* class Aluminium6061, 'Aluminium Alloy (e.g. 6061)'
Aluminium6061 ==
    [key |-> "Aluminium6061",
     power_factor |-> 33,
     hss_chipload_divisor |-> 160,
     hss_speeds |->
         [MILLING |-> Range(152, 182), SLOTTING |-> Unspecified,
          DRILLING |-> Range(106, 122)],
     carbide_chipload_divisor |-> 80,
     carbide_speeds |->
         [MILLING |-> Range(640, 865), SLOTTING |-> Range(425, 575),
          DRILLING |-> Range(215, 290)]]

\* class Aluminium7075, 'Aluminium Alloy (7075)'
Aluminium7075 ==
    [key |-> "Aluminium7075",
     power_factor |-> 33,
     hss_chipload_divisor |-> 160,
     hss_speeds |->
         [MILLING |-> Range(60, 300), SLOTTING |-> Unspecified,
          DRILLING |-> Range(106, 122)],
     carbide_chipload_divisor |-> 80,
     carbide_speeds |->
         [MILLING |-> Range(400, 545), SLOTTING |-> Range(270, 360),
          DRILLING |-> Range(135, 180)]]

\* class CopperAlloy, 'Copper Alloy'
CopperAlloy ==
    [key |-> "CopperAlloy",
     power_factor |-> 80,
     hss_chipload_divisor |-> 160,
     hss_speeds |->
         [MILLING |-> Range(60, 300), SLOTTING |-> Unspecified,
          DRILLING |-> Range(24, 60)],
     carbide_chipload_divisor |-> 80,
     carbide_speeds |->
         [MILLING |-> Range(280, 555), SLOTTING |-> Range(185, 370),
          DRILLING |-> Range(95, 185)]]

\* class Iron, 'Iron'
Iron ==
    [key |-> "Iron",
     power_factor |-> 85,
     hss_chipload_divisor |-> 200,
     hss_speeds |->
         [MILLING |-> Range(60, 250), SLOTTING |-> Unspecified,
          DRILLING |-> Range(15, 30)],
     carbide_chipload_divisor |-> 100,
     carbide_speeds |->
         [MILLING |-> Range(225, 305), SLOTTING |-> Range(230, 315),
          DRILLING |-> Range(190, 255)]]

\* class ToolSteel, 'Tool Steel (640-670N/mm²)'
ToolSteel ==
    [key |-> "ToolSteel",
     power_factor |-> 100,
     hss_chipload_divisor |-> 250,
     hss_speeds |->
         [MILLING |-> Range(60, 100), SLOTTING |-> Unspecified,
          DRILLING |-> Range(7, 15)],
     carbide_chipload_divisor |-> 300,
     carbide_speeds |->
         [MILLING |-> Range(95, 130), SLOTTING |-> Range(90, 120),
          DRILLING |-> Range(65, 85)]]

\* class LowCarbonSteel, 'Low Carbon Steel (340-690N/mm²)'
LowCarbonSteel ==
    [key |-> "LowCarbonSteel",
     power_factor |-> 100,
     hss_chipload_divisor |-> 250,
     hss_speeds |->
         [MILLING |-> Range(60, 100), SLOTTING |-> Unspecified,
          DRILLING |-> Range(6, 18)],
     carbide_chipload_divisor |-> 300,
     carbide_speeds |->
         [MILLING |-> Range(125, 170), SLOTTING |-> Range(115, 155),
          DRILLING |-> Range(80, 110)]]

\* class Stainless, 'Stainless Steel'
Stainless ==
    [key |-> "Stainless",
     power_factor |-> 80,
     hss_chipload_divisor |-> 200,
     hss_speeds |->
         [MILLING |-> Range(60, 80), SLOTTING |-> Unspecified,
          DRILLING |-> Range(7, 15)],
     carbide_chipload_divisor |-> 200,
     carbide_speeds |->
         [MILLING |-> Range(100, 135), SLOTTING |-> Range(95, 130),
          DRILLING |-> Range(45, 60)]]

\* class Titanium, 'Titanium (900-1200N/mm²)'
Titanium ==
    [key |-> "Titanium",
     power_factor |-> 80,
     hss_chipload_divisor |-> 200,
     hss_speeds |->
         [MILLING |-> Range(5, 7), SLOTTING |-> Unspecified,
          DRILLING |-> Range(6, 15)],
     carbide_chipload_divisor |-> 250,
     carbide_speeds |->
         [MILLING |-> Range(45, 60), SLOTTING |-> Range(50, 70),
          DRILLING |-> Range(50, 70)]]

\* class Plastic, 'Plastic'
Plastic ==
    [key |-> "Plastic",
     power_factor |-> 20,
     hss_chipload_divisor |-> 125,
     hss_speeds |->
         [MILLING |-> Range(200, 300), SLOTTING |-> Unspecified,
          DRILLING |-> Range(100, 300)],
     carbide_chipload_divisor |-> 40,
     carbide_speeds |->
         [MILLING |-> Range(100, 1000), SLOTTING |-> Unspecified,
          DRILLING |-> Range(100, 1000)]]

\* class Softwood, 'Wood (soft)'
Softwood ==
    [key |-> "Softwood",
     power_factor |-> 20,
     hss_chipload_divisor |-> 100,
     hss_speeds |->
         [MILLING |-> Range(100, 1300), SLOTTING |-> Unspecified,
          DRILLING |-> Range(100, 1000)],
     carbide_chipload_divisor |-> 80,
     carbide_speeds |->
         [MILLING |-> Range(100, 1300), SLOTTING |-> Unspecified,
          DRILLING |-> Range(100, 1300)]]

\* Hardwood's carbide MILLING entry is left to be estimated, like SLOTTING.
Hardwood_milling_unspecified ==
    [key |-> "Hardwood",
     power_factor |-> 30,
     hss_chipload_divisor |-> 100,
     hss_speeds |->
         [MILLING |-> Range(100, 1300), SLOTTING |-> Unspecified,
          DRILLING |-> Range(100, 1300)],
     carbide_chipload_divisor |-> 80,
     carbide_speeds |->
         [MILLING |-> Unspecified, SLOTTING |-> Unspecified,
          DRILLING |-> Range(100, 1300)]]

\* class Hardwood, 'Hardwood'
Hardwood ==
    [key |-> "Hardwood",
     power_factor |-> 30,
     hss_chipload_divisor |-> 100,
     hss_speeds |->
         [MILLING |-> Range(100, 1300), SLOTTING |-> Unspecified,
          DRILLING |-> Range(100, 1300)],
     carbide_chipload_divisor |-> 80,
     carbide_speeds |->
         [MILLING |-> Range(100, 1300), SLOTTING |-> Unspecified,
          DRILLING |-> Range(100, 1300)]]

MaterialCatalog ==
    {Aluminium6061, Aluminium7075, CopperAlloy, Iron, ToolSteel, LowCarbonSteel,
     Stainless, Titanium, Plastic, Softwood, Hardwood}

Operations == {"MILLING", "SLOTTING", "DRILLING"}
ToolMaterials == {"HSS", "CARBIDE"}

\* The speed table and the chipload divisor of a material for a tool material.
SpeedTable(m, tm) == IF tm = "HSS" THEN m.hss_speeds ELSE m.carbide_speeds
Divisor(m, tm) ==
    IF tm = "HSS" THEN m.hss_chipload_divisor ELSE m.carbide_chipload_divisor

\* chipload = DIAMETER/divisor, in mm, as an exact fraction
Chipload(m, tm, diameter) == [num |-> diameter, den |-> Divisor(m, tm)]

(***************************************************************************)
(* The recommendation engine.                                              *)
(***************************************************************************)
\* pi as the fraction 355/113, which exceeds pi by less than 9 parts in 10^8: a
\* spindle speed below 10^5 RPM moves by less than 0.01 RPM.
Pi == [num |-> 355, den |-> 113]

\* The integer nearest to num/den (num >= 0, den > 0).
Round(num, den) == (num + (den \div 2)) \div den

\* RPM = speed*1000/(pi*diameter), to the nearest whole RPM
SpindleSpeed(speed, diameter) == Round(speed * 1000 * Pi.den, Pi.num * diameter)

IsSpecified(range) == range[1] # None /\ range[2] # None

\* recommend(material, tool_material, operation, tool_diameter_mm): an entry of
\* (None, None) is estimated from the MILLING entry of the same table, whose ratio
\* is left open, so an estimate carries the range it derives from and no numbers.
recommend(m, tm, op, diameter) ==
    LET entry == SpeedTable(m, tm)[op]
        estimated == entry = Unspecified
    IN [chipload |-> Chipload(m, tm, diameter),
        surface_speed |-> entry,
        estimated |-> estimated,
        derived_from |-> IF estimated THEN SpeedTable(m, tm)["MILLING"] ELSE Unspecified,
        spindle_speed |->
            IF IsSpecified(entry)
            THEN <<SpindleSpeed(entry[1][1], diameter), SpindleSpeed(entry[2][1], diameter)>>
            ELSE <<>>]

FeedsInit ==
    /\ fpc = "query"
    /\ material \in MaterialCatalog
    /\ tool_material \in ToolMaterials
    /\ operation \in Operations
    /\ tool_diameter \in 1..MaxDiameter
    /\ recommendation = <<>>

Recommend ==
    /\ fpc = "query"
    /\ recommendation' = recommend(material, tool_material, operation, tool_diameter)
    /\ fpc' = "done"
    /\ UNCHANGED <<script_vars, material, tool_material, operation, tool_diameter>>

InitFeeds == ScriptIdle /\ FeedsInit

NextFeeds == Recommend

SpecFeeds == InitFeeds /\ [][NextFeeds]_vars


(***************************************************************************)
(* Properties of select_library.                                           *)
(***************************************************************************)
LabelsOf(libs) == {libs[i].label : i \in 1..Len(libs)}
DefaultAndShopB == Len(db.libraries) = 2 /\ LabelsOf(db.libraries) = {Default, ShopB}
Typed(n) == [kind |-> "int", int |-> n]

\* C1, as stated: given the libraries 'Default' and 'Shop B', 'Shop B' is listed as
\* number 1 and 'Default*' as number 2, and entering 2 returns the Default library.
C1_ShopBListedFirst ==
    (pc \in {"select_prompt", "select_return"} /\ DefaultAndShopB)
        => /\ stdout = <<<<"listing", 1, ShopB, FALSE>>, <<"listing", 2, Default, TRUE>>>>
           /\ (pc = "select_return" /\ selection = Typed(2)) => library.label = Default

\* C1, amended: given the libraries 'Default' and 'Shop B', in either order, the
\* listing is '1) Default*' then '2) Shop B' (sorted by label, 'Default' marked);
\* entering 1 returns the Default library and entering 2 the Shop B library.
C1_DefaultListedFirst ==
    (pc \in {"select_prompt", "select_return"} /\ DefaultAndShopB)
        => /\ stdout = <<<<"listing", 1, Default, TRUE>>, <<"listing", 2, ShopB, FALSE>>>>
           /\ (pc = "select_return" /\ selection = Typed(1)) => library.label = Default
           /\ (pc = "select_return" /\ selection = Typed(2)) => library.label = ShopB

C1_Witness ==
    /\ pc = "select_return"
    /\ source = <<ShopB, Default>>
    /\ selection = Typed(1)
    /\ library.label = Default

\* C2: with two or more libraries, one of them labelled 'Default', empty input at
\* the prompt returns the library labelled 'Default', the one whose number the
\* prompt shows in brackets.
C2_EmptyInputReturnsDefault ==
    (/\ pc = "select_return"
     /\ Len(db.libraries) >= 2
     /\ Default \in LabelsOf(db.libraries)
     /\ selection.kind = "empty")
        => library.label = Default /\ library = libraries[default]

\* C3: with exactly one library, select_library returns that library, whatever its
\* label, without listing anything and without reading input.
C3_SingleLibraryReturned ==
    Len(db.libraries) = 1
        => /\ pc # "select_prompt"
           /\ pc = "select_return"
                => /\ library = db.libraries[1]
                   /\ stdout = <<>>
                   /\ selection = NoInput
                   /\ prompts = 0

C3_Witness ==
    /\ pc = "select_return"
    /\ Len(db.libraries) = 1
    /\ library.label = ShopB

\* C9: with two or more libraries, the library returned is the one listed under
\* the number entered, so a number outside 1..n returns no library, and input that
\* is no integer is never taken as a selection.
C9_OnlyListedNumberSelects ==
    (pc = "select_return" /\ Len(db.libraries) >= 2)
        => /\ selection.kind # "text"
           /\ selection.kind = "int"
                => /\ selection.int \in 1..Len(libraries)
                   /\ library = libraries[selection.int]


(***************************************************************************)
(* Properties of the commands.                                             *)
(***************************************************************************)
\* The calls that write through a serializer.
IsWrite(e) == e.ev \in {"db.serialize", "library.serialize"}
Writes == SelectSeq(trace, IsWrite)
Loaded == trace[1].data
EventNames == [i \in 1..Len(trace) |-> trace[i].ev]
IsPrefix(s, t) == Len(s) <= Len(t) /\ \A i \in 1..Len(s) : s[i] = t[i]

\* C6: `export` writes the store exactly once, through a serializer instance made
\* from the output format and the output name, which is another instance than the
\* one loaded from; the store written is the store as loaded, and nothing is ever
\* written through the input serializer. `ls` and a run without a command write
\* nothing.
C6_ExportWritesOnceToOutput ==
    /\ args.command = "export"
         => /\ \A i \in 1..Len(Writes) : Writes[i].ser # 1
            /\ pc = "exit"
                 => /\ EventNames = <<"db.deserialize", "db.serialize">>
                    /\ trace[1].ser = 1
                    /\ trace[2].ser = 2
                    /\ Len(serializers) = 2
                    /\ serializers[2] =
                           [format |-> args.output_format, name |-> args.output]
                    /\ trace[2].data = Loaded
                    /\ db = Loaded
    /\ args.command \in {"ls", "None"} => Writes = <<>>

C6_Witness ==
    /\ pc = "exit"
    /\ args.command = "export"
    /\ Len(Writes) = 1
    /\ serializers[1] = serializers[2]
    /\ Len(db.libraries) = 2

\* C7: `create library` ends in an error: the message is reported, the exit status
\* is not zero, no library is added to the store and nothing is serialized.
C7_CreateLibraryIsAnError ==
    (args.command = "create" /\ args.object = "library")
        => /\ Writes = <<>>
           /\ pc \notin {"db_serialize", "library_serialize", "add_tool"}
           /\ pc = "exit"
                => /\ exit_code # 0
                   /\ stderr = <<"sorry, not yet implemented">>
                   /\ EventNames = <<"db.deserialize">>
                   /\ db = Loaded

C7_Witness ==
    /\ pc = "exit"
    /\ args.command = "create"
    /\ args.object = "library"
    /\ exit_code = 2
    /\ Len(db.libraries) = 2

\* The value stored for properties[i] is one of its allowed values, when it has any.
StoredIsAllowed(i) ==
    properties[i].enum # {}
        => /\ properties[i].propname \in DOMAIN tool.params
           /\ tool.params[properties[i].propname] \in properties[i].enum

ToolReturned == pc \in {"add_tool", "library_serialize", "db_serialize"}
                    \/ (pc = "exit" /\ tool # NoTool /\ exit_code = 0)

\* C8: when create_tool returns a tool, the value stored for every property with
\* a non-empty list of allowed values is one of them, whatever was typed and
\* whatever the default; a value outside the list is never stored, the prompt is
\* repeated instead.
C8_StoredValuesAreAllowed ==
    /\ ToolReturned => \A i \in 1..Len(properties) : StoredIsAllowed(i)
    /\ pc = "ask_param"
         => /\ \A i \in 1..(prop_i - 1) : StoredIsAllowed(i)
            /\ prompts > 0
                 => /\ prop_i <= Len(properties)
                    /\ val \notin properties[prop_i].enum
                    /\ properties[prop_i].propname \notin DOMAIN tool.params

C8_Witness ==
    /\ pc = "add_tool"
    /\ Len(properties) = 2
    /\ \A i \in 1..2 : properties[i].enum # {} /\ properties[i].value \notin properties[i].enum
    /\ tool.params["Diameter"] # tool.params["Material"]

CreateToolRun ==
    <<"db.deserialize", "select_library", "create_tool", "db.add_tool",
      "library.serialize", "db.serialize">>

\* C10: a `create tool` run deserializes once from the input serializer, selects
\* one of the store's own libraries, creates the tool, calls db.add_tool(tool,
\* library), then library.serialize, then db.serialize, both through the
\* serializer loaded from, in this order; nothing is serialized before add_tool,
\* and a run that aborts in the selection or in the creation neither adds the tool
\* nor serializes anything.
C10_CreateToolOrder ==
    (args.command = "create" /\ args.object = "tool")
        => /\ IsPrefix(EventNames, CreateToolRun)
           /\ Len(serializers) <= 1
           /\ \A i \in 1..Len(trace) :
                /\ trace[i].ser \in {0, 1}
                /\ i \in {1, 5, 6} => trace[i].ser = 1
                /\ i \in {2, 4, 5}
                     => /\ trace[i].lib = trace[2].lib
                        /\ \E k \in 1..Len(Loaded.libraries) :
                               trace[i].lib = Loaded.libraries[k]
                /\ i < 4 => trace[i].data = Loaded
                /\ i >= 4 => trace[i].data = add_tool(Loaded, tool, trace[2].lib)
           /\ (pc = "exit" /\ exit_code = 0) => EventNames = CreateToolRun
           /\ (pc = "exit" /\ exit_code # 0) => Len(trace) <= 2 /\ db = Loaded

C10_Witness ==
    /\ pc = "exit"
    /\ exit_code = 0
    /\ EventNames = CreateToolRun
    /\ Len(source) = 3
    /\ trace[5].lib.id = 3
    /\ Len(properties) = 2

(***************************************************************************)
(* Properties of the catalog and of the recommendation.                    *)
(***************************************************************************)
\* C4: every material of the catalog has a MILLING entry with both bounds, in the
\* HSS and in the carbide table, so wherever SLOTTING is (None, None) the range it
\* is derived from is a fully specified MILLING range of the same table.
C4_MillingAlwaysSpecified ==
    /\ material \in MaterialCatalog
    /\ "MILLING" \in DOMAIN SpeedTable(material, tool_material)
    /\ IsSpecified(SpeedTable(material, tool_material)["MILLING"])
    /\ (fpc = "done" /\ SpeedTable(material, tool_material)[operation] = Unspecified)
         => /\ operation = "SLOTTING"
            /\ recommendation.estimated
            /\ recommendation.derived_from = SpeedTable(material, tool_material)["MILLING"]
            /\ IsSpecified(recommendation.derived_from)

C4_Witness ==
    /\ fpc = "done"
    /\ material = Plastic
    /\ tool_material = "CARBIDE"
    /\ operation = "SLOTTING"
    /\ recommendation.derived_from = Range(100, 1000)

Alu6061CarbideMilling6mm ==
    /\ fpc = "done"
    /\ material = Aluminium6061
    /\ tool_material = "CARBIDE"
    /\ operation = "MILLING"
    /\ tool_diameter = 6

\* C5, as stated: Aluminium6061, CARBIDE, MILLING, 6 mm: chipload 0.075 mm,
\* surface speed (640, 865) m/min, spindle speed 33973 and 45898 RPM.
C5_SpindleSpeedAsStated ==
    Alu6061CarbideMilling6mm
        => /\ recommendation.chipload.num * 1000 = 75 * recommendation.chipload.den
           /\ recommendation.surface_speed = Range(640, 865)
           /\ recommendation.spindle_speed = <<33973, 45898>>

\* C5, amended: Aluminium6061, CARBIDE, MILLING, 6 mm: chipload 6/80 = 0.075 mm,
\* surface speed (640, 865) m/min, and speed*1000/(pi*6) is 33953 RPM and 45890
\* RPM to the nearest whole RPM.
C5_SpindleSpeed ==
    Alu6061CarbideMilling6mm
        => /\ recommendation.chipload.num * 1000 = 75 * recommendation.chipload.den
           /\ recommendation.surface_speed = Range(640, 865)
           /\ recommendation.spindle_speed = <<33953, 45890>>

C5_Witness ==
    /\ Alu6061CarbideMilling6mm
    /\ recommendation.chipload = [num |-> 6, den |-> 80]
    /\ recommendation.spindle_speed[1] > 30000

====
